---- MODULE Spec2Model ----
(***************************************************************************)
(* Model of project/mobius_strip/mobius_strip.py: the MobiusStrip class,   *)
(* its constructor, update_parameters and its four accessors, driven by a  *)
(* caller that holds one reference `mobius` (as project/main.py does).     *)
(*                                                                         *)
(* Number representation (numpy float64 arrays are held in fixed point):   *)
(*   lengths (radius, width, v, x, y, z)     integer multiples of 1/120    *)
(*   angles and multiples of pi (u, du, 2pi) integer multiples of pi/60    *)
(*   values of cos and sin                   integer multiples of 1/1000   *)
(* With these units np.linspace is exact for every resolution up to 7.     *)
(* An optional argument is <<>> (None) or <<value>>.                       *)
(***************************************************************************)
EXTENDS Integers, Sequences, FiniteSets, TLC

MaxRes == 3

LenUnit == 120
TrigScale == 1000
TwoPi == 120

None == <<>>
Some(v) == <<v>>

Radii == {-1 * LenUnit, 3 * LenUnit}
Widths == {-1 * LenUnit, 1 * LenUnit, 2 * LenUnit}
Resolutions == -1..MaxRes

(* ------------------------------ numerics ------------------------------ *)

Abs(a) == IF a < 0 THEN -a ELSE a

\* a / b rounded to the nearest integer, b # 0 of either sign
RDiv(a, b) ==
  LET n == IF b < 0 THEN -a ELSE a
      d == Abs(b)
  IN  IF n >= 0 THEN (2 * n + d) \div (2 * d) ELSE -((2 * (-n) + d) \div (2 * d))

\* product of a length and a trigonometric value, as a length
FMul(a, c) == RDiv(a * c, TrigScale)

\* product of two trigonometric values, as a trigonometric value
TMul(c, d) == RDiv(c * d, TrigScale)

\* cos of 0, 3, ..., 90 degrees in thousandths
CosTab ==
  << 1000, 999, 995, 988, 978, 966, 951, 934, 914, 891,
     866, 839, 809, 777, 743, 707, 669, 629, 588, 545,
     500, 454, 407, 358, 309, 259, 208, 156, 105, 52, 0 >>

\* np.cos of the angle a * pi/60
Cos(a) ==
  LET m == a % 120
  IN  IF m <= 30 THEN CosTab[m + 1]
      ELSE IF m <= 60 THEN -CosTab[(60 - m) + 1]
      ELSE IF m <= 90 THEN -CosTab[(m - 60) + 1]
      ELSE CosTab[(120 - m) + 1]

\* np.sin of the angle a * pi/60
Sin(a) == Cos(a + 90)

RECURSIVE SqrtIn(_, _, _)
SqrtIn(n, lo, hi) ==
  IF lo >= hi THEN lo
  ELSE LET mid == (lo + hi + 1) \div 2
       IN  IF mid * mid <= n THEN SqrtIn(n, mid, hi) ELSE SqrtIn(n, lo, mid - 1)

\* np.sqrt, to the unit below
Sqrt(n) == SqrtIn(n, 0, 46340)

RECURSIVE SumSeq(_)
SumSeq(s) == IF s = <<>> THEN 0 ELSE Head(s) + SumSeq(Tail(s))

\* np.sum of a 2D array
SumGrid(g) == SumSeq([i \in 1..Len(g) |-> SumSeq(g[i])])

\* np.diff of a 1D array
Diff(s) == [k \in 1..(IF Len(s) = 0 THEN 0 ELSE Len(s) - 1) |-> s[k + 1] - s[k]]

\* np.linspace(start, stop, num) raises ValueError for a negative num
LinspaceRaises(num) == num < 0

\* np.linspace(start, stop, num), num >= 0, endpoint included
Linspace(start, stop, num) ==
  LET div  == num - 1
      step == IF div > 0 THEN RDiv(stop - start, div) ELSE 0
  IN  [k \in 1..num |-> IF num > 1 /\ k = num THEN stop ELSE (k - 1) * step + start]

\* np.meshgrid(u, v): both grids have Len(v) rows and Len(u) columns;
\* an empty axis gives the empty (0 x 0) array
MeshgridU(u, v) == IF Len(u) = 0 THEN <<>> ELSE [i \in 1..Len(v) |-> u]
MeshgridV(u, v) == IF Len(u) = 0 THEN <<>> ELSE [i \in 1..Len(v) |-> [j \in 1..Len(u) |-> v[i]]]

\* a / 2 for angles and lengths
Half(a) == RDiv(a, 2)

(* ------------------------------ the class ----------------------------- *)

\* the attributes of a MobiusStrip before __init__ has set them
Blank ==
  [radius |-> 0, width |-> 0, resolution |-> 0,
   u_range |-> <<>>, v_range |-> <<>>, u_grid |-> <<>>, v_grid |-> <<>>,
   x |-> <<>>, y |-> <<>>, z |-> <<>>]

\* _compute_coordinates: x, y, z from the stored radius and the stored grids
ComputeCoordinates(self) ==
  LET Fx(u, v) == FMul(self.radius + FMul(v, Cos(Half(u))), Cos(u))
      Fy(u, v) == FMul(self.radius + FMul(v, Cos(Half(u))), Sin(u))
      Fz(u, v) == FMul(v, Sin(Half(u)))
      \* numpy evaluates an expression at every point of the two grids
      Elementwise(F(_, _)) ==
        [i \in 1..Len(self.u_grid) |->
          [j \in 1..Len(self.u_grid[i]) |-> F(self.u_grid[i][j], self.v_grid[i][j])]]
  IN  [self EXCEPT !.x = Elementwise(Fx), !.y = Elementwise(Fy), !.z = Elementwise(Fz)]

\* _update_mesh: the grids from the stored ranges, then the coordinates
UpdateMesh(self) ==
  ComputeCoordinates(
    [self EXCEPT !.u_grid = MeshgridU(self.u_range, self.v_range),
                 !.v_grid = MeshgridV(self.u_range, self.v_range)])

\* __init__: the new object, or the exception np.linspace raises
New(radius, width, resolution) ==
  LET s1 == [Blank EXCEPT !.radius = radius, !.width = width, !.resolution = resolution]
  IN  IF LinspaceRaises(resolution)
      THEN [err |-> "ValueError", self |-> s1]
      ELSE [err |-> "none",
            self |-> UpdateMesh(
              [s1 EXCEPT !.u_range = Linspace(0, TwoPi, resolution),
                         !.v_range = Linspace(Half(-width), Half(width), resolution)])]

\* the assignments self.radius = radius, self.width = width and
\* self.resolution = resolution of update_parameters
StoreRadius(self, radius) == [self EXCEPT !.radius = radius]
\* a slip in update_parameters: the width branch also overwrites the radius
StoreWidthSlip(self, width) == [self EXCEPT !.width = width, !.radius = width]
StoreWidth(self, width) == [self EXCEPT !.width = width]
StoreResolution(self, resolution) == [self EXCEPT !.resolution = resolution]

\* update_parameters: the attributes after the call and the exception it
\* ends in, if any; an exception leaves the assignments made before it
UpdateParameters(self, radius, width, resolution) ==
  LET s1 == IF radius # None THEN StoreRadius(self, radius[1]) ELSE self
      wRaises == width # None /\ LinspaceRaises(s1.resolution)
      s2 == IF width # None
            THEN IF wRaises
                 THEN StoreWidth(s1, width[1])
                 ELSE [StoreWidth(s1, width[1]) EXCEPT
                         !.v_range = Linspace(Half(-width[1]), Half(width[1]), s1.resolution)]
            ELSE s1
      nRaises == resolution # None /\ LinspaceRaises(resolution[1])
      s3 == IF resolution # None
            THEN IF nRaises
                 THEN StoreResolution(s2, resolution[1])
                 ELSE [StoreResolution(s2, resolution[1]) EXCEPT
                         !.u_range = Linspace(0, TwoPi, resolution[1]),
                         !.v_range = Linspace(Half(-s2.width), Half(s2.width), resolution[1])]
            ELSE s2
  IN  IF wRaises THEN [err |-> "ValueError", self |-> s2]
      ELSE IF nRaises THEN [err |-> "ValueError", self |-> s3]
      ELSE [err |-> "none", self |-> UpdateMesh(s3)]

\* numpy's a[idx, :] on a 2D array: the row, counted from the end for idx < 0
RowRaises(a, idx) == idx >= Len(a) \/ idx < -Len(a)
Row(a, idx) == IF idx >= 0 THEN a[idx + 1] ELSE a[Len(a) + idx + 1]

\* get_coordinates
GetCoordinates(self) ==
  [err |-> "none", val |-> <<self.x, self.y, self.z>>, self |-> self]

\* a slip in get_edge_points: the last row's index is written to the
\* attribute self.resolution instead of the local v_max_idx
GetEdgePointsSlip(self) ==
  LET s == [self EXCEPT !.resolution = self.resolution - 1]
      v_min_idx == 0
      v_max_idx == s.resolution
  IN  IF RowRaises(s.x, v_min_idx) \/ RowRaises(s.x, v_max_idx)
      THEN [err |-> "IndexError", val |-> <<>>, self |-> s]
      ELSE [err |-> "none",
            val |-> << <<Row(s.x, v_min_idx), Row(s.y, v_min_idx), Row(s.z, v_min_idx)>>,
                       <<Row(s.x, v_max_idx), Row(s.y, v_max_idx), Row(s.z, v_max_idx)>> >>,
            self |-> s]

\* get_edge_points
GetEdgePoints(self) ==
  LET v_min_idx == 0
      v_max_idx == self.resolution - 1
  IN  IF RowRaises(self.x, v_min_idx) \/ RowRaises(self.x, v_max_idx)
      THEN [err |-> "IndexError", val |-> <<>>, self |-> self]
      ELSE [err |-> "none",
            val |-> << <<Row(self.x, v_min_idx), Row(self.y, v_min_idx), Row(self.z, v_min_idx)>>,
                       <<Row(self.x, v_max_idx), Row(self.y, v_max_idx), Row(self.z, v_max_idx)>> >>,
            self |-> self]

\* calculate_surface_area, in units of (pi/60) / (120 * 120)
CalculateSurfaceArea(self) ==
  IF Len(self.u_range) < 2 \/ Len(self.v_range) < 2
  THEN [err |-> "IndexError", val |-> <<>>, self |-> self]
  ELSE
    LET du == self.u_range[2] - self.u_range[1]
        dv == self.v_range[2] - self.v_range[1]
        Mag(u, v) ==
          LET rad   == self.radius + FMul(v, Cos(Half(u)))
              R_u_x == Half(FMul(FMul(-v, Sin(Half(u))), Cos(u))) - FMul(rad, Sin(u))
              R_u_y == Half(FMul(FMul(-v, Sin(Half(u))), Sin(u))) + FMul(rad, Cos(u))
              R_u_z == Half(FMul(v, Cos(Half(u))))
              R_v_x == TMul(Cos(Half(u)), Cos(u))
              R_v_y == TMul(Cos(Half(u)), Sin(u))
              R_v_z == Sin(Half(u))
              cross_x == FMul(R_u_y, R_v_z) - FMul(R_u_z, R_v_y)
              cross_y == FMul(R_u_z, R_v_x) - FMul(R_u_x, R_v_z)
              cross_z == FMul(R_u_x, R_v_y) - FMul(R_u_y, R_v_x)
          IN  Sqrt(cross_x * cross_x + cross_y * cross_y + cross_z * cross_z)
        cross_magnitude ==
          [i \in 1..Len(self.u_grid) |->
            [j \in 1..Len(self.u_grid[i]) |-> Mag(self.u_grid[i][j], self.v_grid[i][j])]]
    IN  [err |-> "none", val |-> <<SumGrid(cross_magnitude) * du * dv>>, self |-> self]

\* calculate_edge_length, in units of (pi/60) / 120; get_edge_points has
\* raised IndexError whenever the resolution it divides by is 0
CalculateEdgeLength(self) ==
  LET e == GetEdgePoints(self)
  IN  IF e.err # "none" THEN e
      ELSE
        LET dx == Diff(e.val[1][1])
            dy == Diff(e.val[1][2])
            dz == Diff(e.val[1][3])
            segment_lengths ==
              [k \in 1..Len(dx) |-> Sqrt(dx[k] * dx[k] + dy[k] * dy[k] + dz[k] * dz[k])]
            total_length == SumSeq(segment_lengths)
        IN  [err |-> "none",
             val |-> <<RDiv(total_length * TwoPi, e.self.resolution)>>,
             self |-> e.self]

(* --------------------------- the state machine ------------------------ *)

VARIABLES
  created,   \* whether `mobius` refers to an object
  mobius,    \* the attributes of the object `mobius` refers to
  op,        \* the last call made
  args,      \* its arguments
  err,       \* the exception it ended in, or "none"
  ret,       \* the value it returned, or <<>>
  clean      \* whether every update_parameters call on the object returned

vars == <<created, mobius, op, args, err, ret, clean>>

NoArgs == [radius |-> None, width |-> None, resolution |-> None]

Init ==
  /\ created = FALSE
  /\ mobius = Blank
  /\ op = "start"
  /\ args = NoArgs
  /\ err = "none"
  /\ ret = <<>>
  /\ clean = TRUE

\* mobius = MobiusStrip(radius, width, resolution), the construction of the
\* one object the calls below are made on; when __init__ raises, the
\* assignment does not happen and the caller may construct again
Create ==
  /\ ~created
  /\ \E r \in Radii, w \in Widths, n \in Resolutions :
       \E o \in {New(r, w, n)} :
           /\ op' = "create"
           /\ args' = [radius |-> Some(r), width |-> Some(w), resolution |-> Some(n)]
           /\ err' = o.err
           /\ ret' = <<>>
           /\ created' = (o.err = "none")
           /\ clean' = TRUE
           /\ mobius' = IF o.err = "none" THEN o.self ELSE mobius

\* mobius.update_parameters(radius?, width?, resolution?)
Update ==
  /\ created
  /\ \E r \in {None} \cup {Some(v) : v \in Radii},
        w \in {None} \cup {Some(v) : v \in Widths},
        n \in {None} \cup {Some(v) : v \in Resolutions} :
       \E o \in {UpdateParameters(mobius, r, w, n)} :
           /\ op' = "update"
           /\ args' = [radius |-> r, width |-> w, resolution |-> n]
           /\ err' = o.err
           /\ ret' = <<>>
           /\ mobius' = o.self
           /\ clean' = (clean /\ o.err = "none")
           /\ UNCHANGED created

\* an accessor call: the object is handed to the method and what the method
\* leaves in it is stored back
Call(name, result) ==
  /\ created
  /\ \E o \in {result} :
       /\ op' = name
       /\ args' = NoArgs
       /\ err' = o.err
       /\ ret' = o.val
       /\ mobius' = o.self
       /\ UNCHANGED <<created, clean>>

Coordinates == Call("coordinates", GetCoordinates(mobius))
EdgePoints == Call("edgePoints", GetEdgePoints(mobius))
SurfaceArea == Call("surfaceArea", CalculateSurfaceArea(mobius))
EdgeLength == Call("edgeLength", CalculateEdgeLength(mobius))

Next ==
  \/ Create
  \/ Update
  \/ Coordinates
  \/ EdgePoints
  \/ SurfaceArea
  \/ EdgeLength

Spec == Init /\ [][Next]_vars

(* ------------------------------ properties ---------------------------- *)

Accessors == {"coordinates", "edgePoints", "surfaceArea", "edgeLength"}
Params == {"radius", "width", "resolution"}
Derived == {"u_range", "v_range", "u_grid", "v_grid", "x", "y", "z"}

\* the parameter constraints of the data model
Valid(self) == self.radius > 0 /\ self.width > 0 /\ self.resolution >= 2

\* the value a parameter has after the last create or update call, going by
\* its arguments
Resulting(f) == IF args[f] # None THEN args[f][1] ELSE mobius[f]

\* a 2D array of n rows and n columns
ShapeIs(g, n) == Len(g) = n /\ \A i \in 1..Len(g) : Len(g[i]) = n

\* every attribute of self is what the constructor makes of self's parameters
IsFresh(self) ==
  LET f == New(self.radius, self.width, self.resolution)
  IN  f.err = "none" /\ self = f.self

\* the derived arrays of self are those of self's stored parameters
DerivedOfStored(self) ==
  LET f == New(self.radius, self.width, self.resolution)
  IN  f.err = "none" /\ \A k \in Derived : self[k] = f.self[k]

\* the ranges have `resolution` elements and the coordinates that shape
ShapesFollowResolution(self) ==
  /\ Len(self.u_range) = self.resolution
  /\ Len(self.v_range) = self.resolution
  /\ ShapeIs(self.x, self.resolution)
  /\ ShapeIs(self.y, self.resolution)
  /\ ShapeIs(self.z, self.resolution)

EvenlySpaced(s) == \A k \in 1..(Len(s) - 2) : s[k + 1] - s[k] = s[k + 2] - s[k + 1]

\* u spans [0, 2pi] and v spans [-width/2, width/2], endpoints included
RangesSpan(self) ==
  LET n == self.resolution
  IN  /\ n >= 1
      /\ Len(self.u_range) = n
      /\ Len(self.v_range) = n
      /\ self.u_range[1] = 0
      /\ self.u_range[n] = TwoPi
      /\ 2 * self.v_range[1] = -self.width
      /\ 2 * self.v_range[n] = self.width
      /\ EvenlySpaced(self.u_range)
      /\ EvenlySpaced(self.v_range)

\* val is the pair of boundary rows, 0 and resolution-1, of coordinates()
BoundaryRows(self, val) ==
  LET c == GetCoordinates(self).val
      n == self.resolution
  IN  /\ n >= 1
      /\ Len(val) = 2
      /\ \A k \in 1..3 :
           /\ Len(c[k]) >= n
           /\ val[1][k] = c[k][1]
           /\ val[2][k] = c[k][n]
           /\ Len(val[1][k]) = n
           /\ Len(val[2][k]) = n

\* C1: create and update fail with InvalidParameter whenever the resulting
\* radius <= 0, width <= 0 or resolution < 2.
C1_InvalidParameterRejected ==
  (/\ op \in {"create", "update"}
   /\ \/ Resulting("radius") <= 0
      \/ Resulting("width") <= 0
      \/ Resulting("resolution") < 2)
  => err = "InvalidParameter"

\* C2: after any update call the whole derived state is exactly what a fresh
\* create of the current radius, width and resolution produces.
C2_UpdateLeavesFreshState ==
  (created /\ op = "update") => IsFresh(mobius)

\* C3: in every state reachable by create and updates, u and v have
\* `resolution` elements and x, y, z have shape resolution x resolution.
C3_ShapesFollowResolution ==
  created => ShapesFollowResolution(mobius)

C5_MutuallyConsistent ==
  created => DerivedOfStored(mobius)

\* C6: on an object whose create and update calls all returned without
\* error, no accessor raises.
C6_AccessorsNeverRaise ==
  (created /\ clean /\ op \in Accessors) => err = "none"

\* C7: edgePoints() returns rows 0 and resolution-1 of the x, y, z that
\* coordinates() returns in the same state, each of length `resolution`.
C7_EdgePointsAreBoundaryRows ==
  op = "edgePoints" => (err = "none" /\ BoundaryRows(mobius, ret))

\* C8: an accessor call leaves the object unchanged, the same accessor called
\* twice in a row gives the same outcome, and only update changes the object.
C8_AccessorsArePure ==
  [][/\ op' \in Accessors => (mobius' = mobius /\ created' = created)
     /\ (op \in Accessors /\ op' = op) => (ret' = ret /\ err' = err)
     /\ (created /\ mobius' # mobius) => op' = "update"]_vars

\* C8 witness: surfaceArea() has returned a value on an object with valid
\* parameters
C8_Witness ==
  /\ created /\ op = "surfaceArea" /\ err = "none" /\ Len(ret) = 1
  /\ Valid(mobius)

\* C9: surfaceArea() returns a non-negative real in every state reachable
\* through create and update.
C9_SurfaceAreaNonNegative ==
  (op = "surfaceArea" /\ err = "none") => ret[1] >= 0

\* C10: after create and after every update, u is `resolution` evenly spaced
\* values from 0 to 2pi and v is `resolution` evenly spaced values from
\* -width/2 to +width/2, endpoints included.
C10_RangesAreLinspace ==
  created => RangesSpan(mobius)

(* Where the stored parameters satisfy the constraints of the data model,  *)
(* the object is fresh, its arrays have the shape and the span of its      *)
(* resolution and width, and the accessors return what they are meant to.  *)
ValidParametersBehave ==
  (created /\ Valid(mobius)) =>
    /\ IsFresh(mobius)
    /\ ShapesFollowResolution(mobius)
    /\ RangesSpan(mobius)
    /\ op \in Accessors => err = "none"
    /\ op = "edgePoints" => BoundaryRows(mobius, ret)
    /\ op = "surfaceArea" => ret[1] > 0

\* a failed call is all that separates the stored parameters from the arrays
StaleOnlyAfterError ==
  (created /\ mobius.resolution >= 0) => IsFresh(mobius)

====
